---- MODULE Spec2Model ----
(***************************************************************************)
(* A model of message-thread (src/thread.h): MessageQueue, Looper, Handler  *)
(* and HandlerThread.  One loop thread runs Looper::Loop, producer threads *)
(* call Handler::PostDelay, one controlling thread calls Looper::Quit or   *)
(* Looper::QuitSafely.  steady_clock is the discrete variable now.         *)
(*                                                                         *)
(* std::priority_queue<MessagePtr, std::vector<MessagePtr>, Compare> is    *)
(* the binary heap push_heap/pop_heap build over the vector; the heap      *)
(* primitives below follow libstdc++'s __push_heap and __adjust_heap.      *)
(*                                                                         *)
(* Spec         two producers, the loop and a stopping thread              *)
(* OrderSpec    one producer and the loop, more messages, no stop          *)
(* TwiceSpec    one producer, the loop, a stopping thread calling twice    *)
(* NegSpec      OrderSpec with delays that may be negative                 *)
(* ExpireSpec   OrderSpec with a Handler that may be destroyed             *)
(* ThrowSpec    OrderSpec with runnables that may throw                    *)
(* LifeSpec     a HandlerThread constructed, maybe started, destroyed      *)
(* FairSpec     Spec with every thread step weakly fair, the clock free    *)
(* FairTickSpec FairSpec with the clock advancing                          *)
(* FairLifeSpec LifeSpec with fair thread steps and mutex acquisition      *)
(*                                                                         *)
(* A definition written right before the one it resembles (CompareLess,    *)
(* NextDecisionEarly, PBodyNoQuitCheck, ...) is a faulty variant of it,    *)
(* kept to show that the properties below tell the two apart.              *)
(***************************************************************************)
EXTENDS Integers, Sequences, FiniteSets, TLC

\* ------------------------------------------------------------------ bounds
\* Spec: the clock's last value, the messages posted, the stop calls made
MaxTime == 1
MaxMsgs == 2
MaxStops == 1
\* OrderSpec (one producer, no stop): the clock's last value, the messages posted
MaxOrderTime == 2
MaxOrderMsgs == 3
\* TwiceSpec (one producer): the stop calls made
MaxTwiceStops == 2

Producers == {"p1", "p2"}

\* "no message" (a null MessagePtr) and "no deadline" (cv_.wait without a time)
NoMsg == [seq |-> 0, send_time |-> 0]
NoDeadline == -1

VARIABLES
  now,          \* std::chrono::steady_clock::now()
  queue_,       \* MessageQueue::queue_: the heap's vector, front first
  quit_,        \* MessageQueue::quit_
  looper_quit,  \* Looper::quit_ (atomic)
  mutex_,       \* MessageQueue::mutex_: "free" or the thread holding it
  lpc,          \* the loop thread's position in Looper::Loop / MessageQueue::Next
  deadline,     \* the time the loop's cv_.wait_until ends, NoDeadline for cv_.wait
  cur,          \* the message Next() returned to Loop
  ppc,          \* each producer's position in PostDelay / Enqueue
  pmsg,         \* the send_time of the message each producer holds (0: none)
  qpc,          \* the controlling thread's position in Looper::Quit
  stopCalls,    \* history: the stop calls made so far, "hard" or "safe"
  nseq,         \* history: number of messages inserted (insertion sequence)
  posted,       \* history: number of messages PostDelay has made
  returned,     \* history: the messages Next() returned, in order
  executed,     \* history: insertion numbers of the messages run, in order
  lateEnq,      \* history: a message was inserted after Next() first returned one
  dueAtStop,    \* history: messages queued and due when quit_ was set
  pendAtStop,   \* history: messages queued and not yet due when quit_ was set
  wokenByQuit,  \* history: Quit found the loop in a timed wait
  nextNull,     \* history: Next() returned nullptr
  invoking,     \* history: the messages whose invocation has begun and not ended
  execAtStop,   \* history: number of messages run when quit_ was set
  pneg,         \* history: the PostDelay each producer is in was given a negative delay
  negSeqs,      \* history: messages inserted by a PostDelay with a negative delay
  handlerAlive, \* a shared_ptr still owns the Handler the messages target
  looper_,      \* HandlerThread::looper_ is set
  dpc           \* the owner's position in HandlerThread::~HandlerThread

vars == <<now, queue_, quit_, looper_quit, mutex_, lpc, deadline, cur, ppc, pmsg,
          qpc, stopCalls, nseq, posted, returned, executed, lateEnq,
          dueAtStop, pendAtStop, wokenByQuit, nextNull,
          invoking, execAtStop, pneg, negSeqs, handlerAlive, looper_, dpc>>

\* ------------------------------------------------------------ the heap
Range(s) == {s[i] : i \in 1..Len(s)}

\* Compare::operator(): f1 orders after f2 when its send_time is larger
CompareLess(f1, f2) == f1.send_time < f2.send_time
Compare(f1, f2) == f1.send_time > f2.send_time

\* q with the element at 0-based index i set to v
Store(q, i, v) == [q EXCEPT ![i + 1] = v]
At(q, i) == q[i + 1]

\* __push_heap: sift value up from holeIndex while its parent orders after it
RECURSIVE SiftUp(_, _, _, _)
SiftUp(q, holeIndex, topIndex, value) ==
  LET parent == (holeIndex - 1) \div 2
  IN IF holeIndex > topIndex /\ Compare(At(q, parent), value)
     THEN SiftUp(Store(q, holeIndex, At(q, parent)), parent, topIndex, value)
     ELSE Store(q, holeIndex, value)

\* __adjust_heap's first loop: move the preferred child up into the hole
RECURSIVE SiftDown(_, _, _)
SiftDown(q, hole, len) ==
  IF hole < (len - 1) \div 2
  THEN LET right == 2 * (hole + 1)
           child == IF Compare(At(q, right), At(q, right - 1)) THEN right - 1 ELSE right
       IN SiftDown(Store(q, hole, At(q, child)), child, len)
  ELSE <<q, hole>>

\* __adjust_heap: the loop, the lone left child of an even length, then __push_heap
AdjustHeap(q, len, value) ==
  LET r == SiftDown(q, 0, len)
      q1 == r[1]
      h1 == r[2]
      lone == (len % 2 = 0) /\ h1 = (len - 2) \div 2
      q2 == IF lone THEN Store(q1, h1, At(q1, 2 * (h1 + 1) - 1)) ELSE q1
      h2 == IF lone THEN 2 * (h1 + 1) - 1 ELSE h1
  IN SiftUp(q2, h2, 0, value)

\* priority_queue::push: push_back, then push_heap
PushHeap(q, m) == SiftUp(Append(q, m), Len(q), 0, m)

\* priority_queue::pop: pop_heap (move the last element's value down from the
\* front), then pop_back
PopHeap(q) ==
  IF Len(q) <= 1 THEN <<>>
  ELSE AdjustHeap(SubSeq(q, 1, Len(q) - 1), Len(q) - 1, q[Len(q)])

\* priority_queue::top
Top(q) == q[1]

\* ------------------------------------------------------- MessageQueue::Next
\* What one pass of Next()'s while (true) decides under the lock, and, after
\* break, what the code below the loop does.
NextDecisionEarly(q, quit, t) ==
  IF quit THEN "null"
  ELSE IF q = <<>> THEN "wait"
  ELSE "pop"
NextDecisionDrain(q, quit, t) ==
  IF q # <<>> /\ Top(q).send_time <= t THEN "pop"
  ELSE IF quit THEN "null"
  ELSE IF q = <<>> THEN "wait"
  ELSE "wait_until"
NextDecisionNullOnEmpty(q, quit, t) ==
  IF quit THEN "null"
  ELSE IF q = <<>> THEN "null"
  ELSE IF Top(q).send_time <= t THEN "pop"
  ELSE "wait_until"
NextDecisionNoTimer(q, quit, t) ==
  IF quit THEN "null"
  ELSE IF q = <<>> THEN "wait"
  ELSE IF Top(q).send_time <= t THEN "pop"
  ELSE "wait"
NextDecision(q, quit, t) ==
  IF quit THEN "null"
  ELSE IF q = <<>> THEN "wait"
  ELSE IF Top(q).send_time <= t
       THEN (IF q = <<>> THEN "null" ELSE "pop")
       ELSE "wait_until"

\* cv_.notify_all() as the loop thread sees it: a waiting loop becomes runnable
NotifyAll(pc) == IF pc = "wait" THEN "wake" ELSE pc

\* messages made by PostDelay and not yet through Enqueue's critical section
InFlight == Cardinality({p \in Producers : ppc[p] \in {"enqueue", "locked"}})

\* number of Enqueue calls that returned false: made, not inserted, not in flight
Rejected == posted - nseq - InFlight

\* --------------------------------------------------------------- Init
Init ==
  /\ now = 0
  /\ queue_ = <<>>
  /\ quit_ = FALSE
  /\ looper_quit = FALSE
  /\ mutex_ = "free"
  /\ lpc = "loop_top"
  /\ deadline = NoDeadline
  /\ cur = NoMsg
  /\ ppc = [p \in Producers |-> "idle"]
  /\ pmsg = [p \in Producers |-> 0]
  /\ qpc = "idle"
  /\ stopCalls = <<>>
  /\ nseq = 0
  /\ posted = 0
  /\ returned = <<>>
  /\ executed = <<>>
  /\ lateEnq = FALSE
  /\ dueAtStop = {}
  /\ pendAtStop = {}
  /\ wokenByQuit = FALSE
  /\ nextNull = FALSE
  /\ invoking = {}
  /\ execAtStop = 0
  /\ pneg = [p \in Producers |-> FALSE]
  /\ negSeqs = {}
  /\ handlerAlive = TRUE
  /\ looper_ = TRUE
  /\ dpc = "alive"

\* ------------------------------------------------------------ the clock
TickTo(cap) ==
  /\ now < cap
  /\ now' = now + 1
  /\ UNCHANGED <<queue_, quit_, looper_quit, mutex_, lpc, deadline, cur, ppc, pmsg,
                 qpc, stopCalls, nseq, posted, returned, executed, lateEnq,
                 dueAtStop, pendAtStop, wokenByQuit, nextNull,
                 invoking, execAtStop, pneg, negSeqs, handlerAlive, looper_, dpc>>

Tick == TickTo(MaxTime)

\* ------------------------------------------------------------ producers
\* Handler::PostDelay up to the call of Enqueue, called on a Handler its
\* caller owns: the Message is made, SetCallback stamps send_time_ = now() +
\* delay and set_target keeps a weak reference to the Handler.  At most
\* msgCap messages are made, none due after timeCap.
Stamp(p, d, msgCap, timeCap) ==
  /\ ppc[p] = "idle"
  /\ handlerAlive
  /\ posted < msgCap
  /\ now + d <= timeCap
  /\ posted' = posted + 1
  /\ ppc' = [ppc EXCEPT ![p] = "enqueue"]
  /\ pmsg' = [pmsg EXCEPT ![p] = now + d]
  /\ pneg' = [pneg EXCEPT ![p] = d < 0]
  /\ UNCHANGED <<now, queue_, quit_, looper_quit, mutex_, lpc, deadline, cur,
                 qpc, stopCalls, nseq, returned, executed, lateEnq,
                 dueAtStop, pendAtStop, wokenByQuit, nextNull,
                 invoking, execAtStop, negSeqs, handlerAlive, looper_, dpc>>

PStamp(p, d) == Stamp(p, d, MaxMsgs, MaxTime)

\* MessageQueue::Enqueue: std::lock_guard lock(mutex_)
PLock(p) ==
  /\ ppc[p] = "enqueue"
  /\ mutex_ = "free"
  /\ mutex_' = p
  /\ ppc' = [ppc EXCEPT ![p] = "locked"]
  /\ UNCHANGED <<now, queue_, quit_, looper_quit, lpc, deadline, cur, pmsg,
                 qpc, stopCalls, nseq, posted, returned, executed, lateEnq,
                 dueAtStop, pendAtStop, wokenByQuit, nextNull,
                 invoking, execAtStop, pneg, negSeqs, handlerAlive, looper_, dpc>>

\* MessageQueue::Enqueue under the lock: return false when quit_, else push;
\* the lock_guard's scope ends
PBodyNoQuitCheck(p) ==
  /\ ppc[p] = "locked"
  /\ mutex_ = p
  /\ mutex_' = "free"
  /\ queue_' = PushHeap(queue_, [seq |-> nseq + 1, send_time |-> pmsg[p]])
  /\ nseq' = nseq + 1
  /\ lateEnq' = (lateEnq \/ returned # <<>>)
  /\ negSeqs' = (IF pneg[p] THEN negSeqs \cup {nseq + 1} ELSE negSeqs)
  /\ ppc' = [ppc EXCEPT ![p] = "notify"]
  /\ pmsg' = [pmsg EXCEPT ![p] = 0]
  /\ pneg' = [pneg EXCEPT ![p] = FALSE]
  /\ UNCHANGED <<now, quit_, looper_quit, lpc, deadline, cur,
                 qpc, stopCalls, posted, returned, executed,
                 dueAtStop, pendAtStop, wokenByQuit, nextNull,
                 invoking, execAtStop, handlerAlive, looper_, dpc>>
PBody(p) ==
  /\ ppc[p] = "locked"
  /\ mutex_ = p
  /\ mutex_' = "free"
  /\ IF quit_
     THEN /\ ppc' = [ppc EXCEPT ![p] = "idle"]
          /\ UNCHANGED <<queue_, nseq, lateEnq, negSeqs>>
     ELSE /\ queue_' = PushHeap(queue_, [seq |-> nseq + 1, send_time |-> pmsg[p]])
          /\ nseq' = nseq + 1
          /\ lateEnq' = (lateEnq \/ returned # <<>>)
          /\ negSeqs' = (IF pneg[p] THEN negSeqs \cup {nseq + 1} ELSE negSeqs)
          /\ ppc' = [ppc EXCEPT ![p] = "notify"]
  /\ pmsg' = [pmsg EXCEPT ![p] = 0]
  /\ pneg' = [pneg EXCEPT ![p] = FALSE]
  /\ UNCHANGED <<now, quit_, looper_quit, lpc, deadline, cur,
                 qpc, stopCalls, posted, returned, executed,
                 dueAtStop, pendAtStop, wokenByQuit, nextNull,
                 invoking, execAtStop, handlerAlive, looper_, dpc>>

\* MessageQueue::Enqueue after the lock: cv_.notify_all(); return true
PNotifyLost(p) ==
  /\ ppc[p] = "notify"
  /\ ppc' = [ppc EXCEPT ![p] = "idle"]
  /\ UNCHANGED <<now, queue_, quit_, looper_quit, mutex_, lpc, deadline, cur, pmsg,
                 qpc, stopCalls, nseq, posted, returned, executed, lateEnq,
                 dueAtStop, pendAtStop, wokenByQuit, nextNull,
                 invoking, execAtStop, pneg, negSeqs, handlerAlive, looper_, dpc>>
PNotify(p) ==
  /\ ppc[p] = "notify"
  /\ lpc' = NotifyAll(lpc)
  /\ ppc' = [ppc EXCEPT ![p] = "idle"]
  /\ UNCHANGED <<now, queue_, quit_, looper_quit, mutex_, deadline, cur, pmsg,
                 qpc, stopCalls, nseq, posted, returned, executed, lateEnq,
                 dueAtStop, pendAtStop, wokenByQuit, nextNull,
                 invoking, execAtStop, pneg, negSeqs, handlerAlive, looper_, dpc>>

\* the last shared_ptr owning the Handler is released, by a thread that is
\* not inside one of its member functions: the Handler is destroyed and the
\* weak references its messages keep expire
DropHandler ==
  /\ handlerAlive
  /\ \A p \in Producers : ppc[p] = "idle"
  /\ handlerAlive' = FALSE
  /\ UNCHANGED <<now, queue_, quit_, looper_quit, mutex_, lpc, deadline, cur, ppc, pmsg,
                 qpc, stopCalls, nseq, posted, returned, executed, lateEnq,
                 dueAtStop, pendAtStop, wokenByQuit, nextNull,
                 invoking, execAtStop, pneg, negSeqs, looper_, dpc>>

\* ------------------------------------------------------ the loop thread
\* Looper::Loop: while (!quit_) ... queue_->Next()
LoopTop ==
  /\ lpc = "loop_top"
  /\ lpc' = IF looper_quit THEN "done" ELSE "next_lock"
  /\ UNCHANGED <<now, queue_, quit_, looper_quit, mutex_, deadline, cur, ppc, pmsg,
                 qpc, stopCalls, nseq, posted, returned, executed, lateEnq,
                 dueAtStop, pendAtStop, wokenByQuit, nextNull,
                 invoking, execAtStop, pneg, negSeqs, handlerAlive, looper_, dpc>>

\* MessageQueue::Next: std::unique_lock lock(mutex_), and the re-lock a
\* condition-variable wait ends with
LoopLock ==
  /\ lpc \in {"next_lock", "wake"}
  /\ mutex_ = "free"
  /\ mutex_' = "loop"
  /\ lpc' = "next_check"
  /\ deadline' = NoDeadline
  /\ UNCHANGED <<now, queue_, quit_, looper_quit, cur, ppc, pmsg,
                 qpc, stopCalls, nseq, posted, returned, executed, lateEnq,
                 dueAtStop, pendAtStop, wokenByQuit, nextNull,
                 invoking, execAtStop, pneg, negSeqs, handlerAlive, looper_, dpc>>

\* MessageQueue::Next: one pass of while (true) with the lock held, through to
\* the wait (which releases the lock) or the return (which releases it too);
\* Loop breaks on a null message
LoopNextKeepLock ==
  /\ lpc = "next_check"
  /\ mutex_ = "loop"
  /\ LET d == NextDecision(queue_, quit_, now)
     IN /\ mutex_' = (IF d = "pop" THEN "loop" ELSE "free")
        /\ CASE d = "null" ->
                  /\ lpc' = "done"
                  /\ cur' = NoMsg
                  /\ nextNull' = TRUE
                  /\ UNCHANGED <<queue_, deadline, returned>>
             [] d = "wait" ->
                  /\ lpc' = "wait"
                  /\ deadline' = NoDeadline
                  /\ UNCHANGED <<queue_, cur, returned, nextNull>>
             [] d = "wait_until" ->
                  /\ lpc' = "wait"
                  /\ deadline' = Top(queue_).send_time
                  /\ UNCHANGED <<queue_, cur, returned, nextNull>>
             [] d = "pop" ->
                  /\ lpc' = "dispatch"
                  /\ cur' = Top(queue_)
                  /\ queue_' = PopHeap(queue_)
                  /\ returned' = Append(returned, Top(queue_))
                  /\ UNCHANGED <<deadline, nextNull>>
  /\ UNCHANGED <<now, quit_, looper_quit, ppc, pmsg,
                 qpc, stopCalls, nseq, posted, executed, lateEnq,
                 dueAtStop, pendAtStop, wokenByQuit,
                 invoking, execAtStop, pneg, negSeqs, handlerAlive, looper_, dpc>>
LoopNext ==
  /\ lpc = "next_check"
  /\ mutex_ = "loop"
  /\ mutex_' = "free"
  /\ LET d == NextDecision(queue_, quit_, now)
     IN CASE d = "null" ->
               /\ lpc' = "done"
               /\ cur' = NoMsg
               /\ nextNull' = TRUE
               /\ UNCHANGED <<queue_, deadline, returned>>
          [] d = "wait" ->
               /\ lpc' = "wait"
               /\ deadline' = NoDeadline
               /\ UNCHANGED <<queue_, cur, returned, nextNull>>
          [] d = "wait_until" ->
               /\ lpc' = "wait"
               /\ deadline' = Top(queue_).send_time
               /\ UNCHANGED <<queue_, cur, returned, nextNull>>
          [] d = "pop" ->
               /\ lpc' = "dispatch"
               /\ cur' = Top(queue_)
               /\ queue_' = PopHeap(queue_)
               /\ returned' = Append(returned, Top(queue_))
               /\ UNCHANGED <<deadline, nextNull>>
  /\ UNCHANGED <<now, quit_, looper_quit, ppc, pmsg,
                 qpc, stopCalls, nseq, posted, executed, lateEnq,
                 dueAtStop, pendAtStop, wokenByQuit,
                 invoking, execAtStop, pneg, negSeqs, handlerAlive, looper_, dpc>>

\* cv_.wait_until reaches its time
WaitTimeout ==
  /\ lpc = "wait"
  /\ deadline # NoDeadline
  /\ now >= deadline
  /\ lpc' = "wake"
  /\ UNCHANGED <<now, queue_, quit_, looper_quit, mutex_, deadline, cur, ppc, pmsg,
                 qpc, stopCalls, nseq, posted, returned, executed, lateEnq,
                 dueAtStop, pendAtStop, wokenByQuit, nextNull,
                 invoking, execAtStop, pneg, negSeqs, handlerAlive, looper_, dpc>>

\* a condition-variable wait may end with no notification
SpuriousWake ==
  /\ lpc = "wait"
  /\ lpc' = "wake"
  /\ UNCHANGED <<now, queue_, quit_, looper_quit, mutex_, deadline, cur, ppc, pmsg,
                 qpc, stopCalls, nseq, posted, returned, executed, lateEnq,
                 dueAtStop, pendAtStop, wokenByQuit, nextNull,
                 invoking, execAtStop, pneg, negSeqs, handlerAlive, looper_, dpc>>

\* Looper::Loop: msg->target().lock(); when the Handler is still owned,
\* target->DispatchMessage(msg) calls the runnable, else Loop goes round.
\* DispatchMessage calls on the loop thread and Loop waits for it to return.
LoopDispatchStrong ==
  /\ lpc = "dispatch"
  /\ lpc' = "running"
  /\ executed' = Append(executed, cur.seq)
  /\ invoking' = invoking \cup {cur.seq}
  /\ UNCHANGED <<now, queue_, quit_, looper_quit, mutex_, deadline, cur, ppc, pmsg,
                 qpc, stopCalls, nseq, posted, returned, lateEnq,
                 dueAtStop, pendAtStop, wokenByQuit, nextNull,
                 execAtStop, pneg, negSeqs, handlerAlive, looper_, dpc>>
LoopDispatchDetached ==
  /\ lpc = "dispatch"
  /\ IF handlerAlive
     THEN /\ executed' = Append(executed, cur.seq)
          /\ invoking' = invoking \cup {cur.seq}
     ELSE UNCHANGED <<executed, invoking>>
  /\ lpc' = "loop_top"
  /\ cur' = NoMsg
  /\ UNCHANGED <<now, queue_, quit_, looper_quit, mutex_, deadline, ppc, pmsg,
                 qpc, stopCalls, nseq, posted, returned, lateEnq,
                 dueAtStop, pendAtStop, wokenByQuit, nextNull,
                 execAtStop, pneg, negSeqs, handlerAlive, looper_, dpc>>
LoopDispatch ==
  /\ lpc = "dispatch"
  /\ IF handlerAlive
     THEN /\ lpc' = "running"
          /\ executed' = Append(executed, cur.seq)
          /\ invoking' = invoking \cup {cur.seq}
          /\ UNCHANGED cur
     ELSE /\ lpc' = "loop_top"
          /\ cur' = NoMsg
          /\ UNCHANGED <<executed, invoking>>
  /\ UNCHANGED <<now, queue_, quit_, looper_quit, mutex_, deadline, ppc, pmsg,
                 qpc, stopCalls, nseq, posted, returned, lateEnq,
                 dueAtStop, pendAtStop, wokenByQuit, nextNull,
                 execAtStop, pneg, negSeqs, handlerAlive, looper_, dpc>>

\* the runnable returns; Loop goes round
LoopRunEnd ==
  /\ lpc = "running"
  /\ lpc' = "loop_top"
  /\ cur' = NoMsg
  /\ invoking' = invoking \ {cur.seq}
  /\ UNCHANGED <<now, queue_, quit_, looper_quit, mutex_, deadline, ppc, pmsg,
                 qpc, stopCalls, nseq, posted, returned, executed, lateEnq,
                 dueAtStop, pendAtStop, wokenByQuit, nextNull,
                 execAtStop, pneg, negSeqs, handlerAlive, looper_, dpc>>

\* the runnable throws: Runnable::Run, DispatchMessage, Loop and
\* HandlerThread::Run catch nothing, so the exception leaves the function the
\* std::thread runs and std::terminate ends the process
LoopThrow ==
  /\ lpc = "running"
  /\ lpc' = "terminated"
  /\ UNCHANGED <<now, queue_, quit_, looper_quit, mutex_, deadline, cur, ppc, pmsg,
                 qpc, stopCalls, nseq, posted, returned, executed, lateEnq,
                 dueAtStop, pendAtStop, wokenByQuit, nextNull,
                 invoking, execAtStop, pneg, negSeqs, handlerAlive, looper_, dpc>>

\* ---------------------------------------------------- the stopping thread
\* Looper::Quit / Looper::QuitSafely: quit_ = true, before queue_->Quit()
LooperQuit(kind) ==
  /\ qpc = "idle"
  /\ looper_quit' = TRUE
  /\ qpc' = "lock"
  /\ stopCalls' = Append(stopCalls, kind)
  /\ UNCHANGED <<now, queue_, quit_, mutex_, lpc, deadline, cur, ppc, pmsg,
                 nseq, posted, returned, executed, lateEnq,
                 dueAtStop, pendAtStop, wokenByQuit, nextNull,
                 invoking, execAtStop, pneg, negSeqs, handlerAlive, looper_>>

\* a controlling thread calls Looper::Quit or Looper::QuitSafely, at most
\* MaxStops times
StopCall(kind) ==
  /\ Len(stopCalls) < MaxStops
  /\ LooperQuit(kind)
  /\ UNCHANGED dpc

\* the same, at most MaxTwiceStops times
TwiceStop(kind) ==
  /\ Len(stopCalls) < MaxTwiceStops
  /\ LooperQuit(kind)
  /\ UNCHANGED dpc

\* MessageQueue::Quit (QuitSafely only calls it): std::lock_guard lock(mutex_)
QLock ==
  /\ qpc = "lock"
  /\ mutex_ = "free"
  /\ mutex_' = "stopper"
  /\ qpc' = "locked"
  /\ UNCHANGED <<now, queue_, quit_, looper_quit, lpc, deadline, cur, ppc, pmsg,
                 stopCalls, nseq, posted, returned, executed, lateEnq,
                 dueAtStop, pendAtStop, wokenByQuit, nextNull,
                 invoking, execAtStop, pneg, negSeqs, handlerAlive, looper_, dpc>>

\* MessageQueue::Quit under the lock: quit_ = true; cv_.notify_all()
QBodyNoNotify ==
  /\ qpc = "locked"
  /\ mutex_ = "stopper"
  /\ mutex_' = "free"
  /\ quit_' = TRUE
  /\ qpc' = "idle"
  /\ dueAtStop' = IF quit_ THEN dueAtStop
                  ELSE {m.seq : m \in {x \in Range(queue_) : x.send_time <= now}}
  /\ pendAtStop' = IF quit_ THEN pendAtStop
                   ELSE {m.seq : m \in {x \in Range(queue_) : x.send_time > now}}
  /\ wokenByQuit' = (wokenByQuit \/ (lpc = "wait" /\ deadline # NoDeadline))
  /\ execAtStop' = (IF quit_ THEN execAtStop ELSE Len(executed))
  /\ UNCHANGED <<now, queue_, looper_quit, lpc, deadline, cur, ppc, pmsg,
                 stopCalls, nseq, posted, returned, executed, lateEnq,
                 nextNull,
                 invoking, pneg, negSeqs, handlerAlive, looper_, dpc>>
QBodyNoFlag ==
  /\ qpc = "locked"
  /\ mutex_ = "stopper"
  /\ mutex_' = "free"
  /\ quit_' = quit_
  /\ lpc' = NotifyAll(lpc)
  /\ qpc' = "idle"
  /\ dueAtStop' = IF quit_ THEN dueAtStop
                  ELSE {m.seq : m \in {x \in Range(queue_) : x.send_time <= now}}
  /\ pendAtStop' = IF quit_ THEN pendAtStop
                   ELSE {m.seq : m \in {x \in Range(queue_) : x.send_time > now}}
  /\ wokenByQuit' = (wokenByQuit \/ (lpc = "wait" /\ deadline # NoDeadline))
  /\ execAtStop' = (IF quit_ THEN execAtStop ELSE Len(executed))
  /\ UNCHANGED <<now, queue_, looper_quit, deadline, cur, ppc, pmsg,
                 stopCalls, nseq, posted, returned, executed, lateEnq,
                 nextNull,
                 invoking, pneg, negSeqs, handlerAlive, looper_, dpc>>
QBodyToggle ==
  /\ qpc = "locked"
  /\ mutex_ = "stopper"
  /\ mutex_' = "free"
  /\ quit_' = ~quit_
  /\ lpc' = NotifyAll(lpc)
  /\ qpc' = "idle"
  /\ dueAtStop' = IF quit_ THEN dueAtStop
                  ELSE {m.seq : m \in {x \in Range(queue_) : x.send_time <= now}}
  /\ pendAtStop' = IF quit_ THEN pendAtStop
                   ELSE {m.seq : m \in {x \in Range(queue_) : x.send_time > now}}
  /\ wokenByQuit' = (wokenByQuit \/ (lpc = "wait" /\ deadline # NoDeadline))
  /\ execAtStop' = (IF quit_ THEN execAtStop ELSE Len(executed))
  /\ UNCHANGED <<now, queue_, looper_quit, deadline, cur, ppc, pmsg,
                 stopCalls, nseq, posted, returned, executed, lateEnq,
                 nextNull,
                 invoking, pneg, negSeqs, handlerAlive, looper_, dpc>>
QBody ==
  /\ qpc = "locked"
  /\ mutex_ = "stopper"
  /\ mutex_' = "free"
  /\ quit_' = TRUE
  /\ lpc' = NotifyAll(lpc)
  /\ qpc' = "idle"
  /\ dueAtStop' = IF quit_ THEN dueAtStop
                  ELSE {m.seq : m \in {x \in Range(queue_) : x.send_time <= now}}
  /\ pendAtStop' = IF quit_ THEN pendAtStop
                   ELSE {m.seq : m \in {x \in Range(queue_) : x.send_time > now}}
  /\ wokenByQuit' = (wokenByQuit \/ (lpc = "wait" /\ deadline # NoDeadline))
  /\ execAtStop' = (IF quit_ THEN execAtStop ELSE Len(executed))
  /\ UNCHANGED <<now, queue_, looper_quit, deadline, cur, ppc, pmsg,
                 stopCalls, nseq, posted, returned, executed, lateEnq,
                 nextNull,
                 invoking, pneg, negSeqs, handlerAlive, looper_, dpc>>

\* ------------------------------------------------------- HandlerThread
\* HandlerThread::mutex_ is held only for the few statements of Run's block
\* and of looper(), each taken here as one step; cv_.wait gives it up.

\* a HandlerThread constructed and not yet started: no thread runs Loop
InitLife ==
  /\ now = 0
  /\ queue_ = <<>>
  /\ quit_ = FALSE
  /\ looper_quit = FALSE
  /\ mutex_ = "free"
  /\ lpc = "unstarted"
  /\ deadline = NoDeadline
  /\ cur = NoMsg
  /\ ppc = [p \in Producers |-> "idle"]
  /\ pmsg = [p \in Producers |-> 0]
  /\ qpc = "idle"
  /\ stopCalls = <<>>
  /\ nseq = 0
  /\ posted = 0
  /\ returned = <<>>
  /\ executed = <<>>
  /\ lateEnq = FALSE
  /\ dueAtStop = {}
  /\ pendAtStop = {}
  /\ wokenByQuit = FALSE
  /\ nextNull = FALSE
  /\ invoking = {}
  /\ execAtStop = 0
  /\ pneg = [p \in Producers |-> FALSE]
  /\ negSeqs = {}
  /\ handlerAlive = TRUE
  /\ looper_ = FALSE
  /\ dpc = "alive"

\* HandlerThread::Start: thread_ = std::thread(&HandlerThread::Run, this)
Start ==
  /\ dpc = "alive"
  /\ lpc = "unstarted"
  /\ lpc' = "run"
  /\ UNCHANGED <<now, queue_, quit_, looper_quit, mutex_, deadline, cur, ppc, pmsg,
                 qpc, stopCalls, nseq, posted, returned, executed, lateEnq,
                 dueAtStop, pendAtStop, wokenByQuit, nextNull,
                 invoking, execAtStop, pneg, negSeqs, handlerAlive, looper_, dpc>>

\* HandlerThread::Run up to the call of Loop: looper_ = Looper::MyLooper();
\* cv_.notify_all()
Run ==
  /\ lpc = "run"
  /\ looper_' = TRUE
  /\ dpc' = (IF dpc = "looper_wait" THEN "looper" ELSE dpc)
  /\ lpc' = "loop_top"
  /\ UNCHANGED <<now, queue_, quit_, looper_quit, mutex_, deadline, cur, ppc, pmsg,
                 qpc, stopCalls, nseq, posted, returned, executed, lateEnq,
                 dueAtStop, pendAtStop, wokenByQuit, nextNull,
                 invoking, execAtStop, pneg, negSeqs, handlerAlive>>

\* HandlerThread::handler() returns only once looper() has: a thread posts
\* through the HandlerThread's Handler after looper_ is set
LifeStamp(d) ==
  /\ looper_
  /\ PStamp("p1", d)

\* HandlerThread::~HandlerThread: Quit(), which calls looper()
DtorBegin ==
  /\ dpc = "alive"
  /\ dpc' = "looper"
  /\ UNCHANGED <<now, queue_, quit_, looper_quit, mutex_, deadline, cur, ppc, pmsg,
                 qpc, stopCalls, nseq, posted, returned, executed, lateEnq,
                 dueAtStop, pendAtStop, wokenByQuit, nextNull,
                 invoking, execAtStop, pneg, negSeqs, handlerAlive, looper_, lpc>>

\* HandlerThread::looper: while (!looper_) cv_.wait(lock); return looper_
LooperCheck ==
  /\ dpc = "looper"
  /\ dpc' = (IF looper_ THEN "quit" ELSE "looper_wait")
  /\ UNCHANGED <<now, queue_, quit_, looper_quit, mutex_, deadline, cur, ppc, pmsg,
                 qpc, stopCalls, nseq, posted, returned, executed, lateEnq,
                 dueAtStop, pendAtStop, wokenByQuit, nextNull,
                 invoking, execAtStop, pneg, negSeqs, handlerAlive, looper_, lpc>>

\* cv_.wait in looper() may end with no notification
LooperSpurious ==
  /\ dpc = "looper_wait"
  /\ dpc' = "looper"
  /\ UNCHANGED <<now, queue_, quit_, looper_quit, mutex_, deadline, cur, ppc, pmsg,
                 qpc, stopCalls, nseq, posted, returned, executed, lateEnq,
                 dueAtStop, pendAtStop, wokenByQuit, nextNull,
                 invoking, execAtStop, pneg, negSeqs, handlerAlive, looper_, lpc>>

\* HandlerThread::Quit: looper->Quit()
DtorQuit ==
  /\ dpc = "quit"
  /\ LooperQuit("hard")
  /\ dpc' = "quitting"

\* HandlerThread::~HandlerThread after Quit() has returned:
\* if (thread_.joinable()) thread_.join()
DtorJoin ==
  /\ dpc = "quitting"
  /\ qpc = "idle"
  /\ lpc = "done"
  /\ dpc' = "destroyed"
  /\ UNCHANGED <<now, queue_, quit_, looper_quit, mutex_, deadline, cur, ppc, pmsg,
                 qpc, stopCalls, nseq, posted, returned, executed, lateEnq,
                 dueAtStop, pendAtStop, wokenByQuit, nextNull,
                 invoking, execAtStop, pneg, negSeqs, handlerAlive, looper_, lpc>>

\* ------------------------------------------------------- specifications
Next ==
  \/ Tick
  \/ \E p \in Producers, d \in 0..MaxTime : PStamp(p, d)
  \/ \E p \in Producers : PLock(p)
  \/ \E p \in Producers : PBody(p)
  \/ \E p \in Producers : PNotify(p)
  \/ LoopTop
  \/ LoopLock
  \/ LoopNext
  \/ WaitTimeout
  \/ SpuriousWake
  \/ LoopDispatch
  \/ LoopRunEnd
  \/ \E kind \in {"hard", "safe"} : StopCall(kind)
  \/ QLock
  \/ QBody

Spec == Init /\ [][Next]_vars

\* One thread posting with the loop running and no stop: the order in which
\* Next() hands messages out.
OrderTick == TickTo(MaxOrderTime)
OrderStamp(d) == Stamp("p1", d, MaxOrderMsgs, MaxOrderTime)

NextOrder ==
  \/ OrderTick
  \/ \E d \in 0..MaxOrderTime : OrderStamp(d)
  \/ PLock("p1")
  \/ PBody("p1")
  \/ PNotify("p1")
  \/ LoopTop
  \/ LoopLock
  \/ LoopNext
  \/ WaitTimeout
  \/ SpuriousWake
  \/ LoopDispatch
  \/ LoopRunEnd

OrderSpec == Init /\ [][NextOrder]_vars

\* One thread posting, the loop, and a controlling thread that stops the loop
\* more than once.
NextTwice ==
  \/ Tick
  \/ \E d \in 0..MaxTime : PStamp("p1", d)
  \/ PLock("p1")
  \/ PBody("p1")
  \/ PNotify("p1")
  \/ LoopTop
  \/ LoopLock
  \/ LoopNext
  \/ WaitTimeout
  \/ SpuriousWake
  \/ LoopDispatch
  \/ LoopRunEnd
  \/ \E kind \in {"hard", "safe"} : TwiceStop(kind)
  \/ QLock
  \/ QBody

TwiceSpec == Init /\ [][NextTwice]_vars

\* OrderSpec with delays that may be negative: PostDelay takes any
\* std::chrono::milliseconds.
NegStamp(d) == Stamp("p1", d, MaxOrderMsgs, MaxOrderTime)
NextNeg ==
  \/ OrderTick
  \/ \E d \in (-1)..MaxOrderTime : NegStamp(d)
  \/ PLock("p1")
  \/ PBody("p1")
  \/ PNotify("p1")
  \/ LoopTop
  \/ LoopLock
  \/ LoopNext
  \/ WaitTimeout
  \/ SpuriousWake
  \/ LoopDispatch
  \/ LoopRunEnd

NegSpec == Init /\ [][NextNeg]_vars

\* OrderSpec with a Handler that may be destroyed while its messages are
\* queued.
NextExpire ==
  \/ NextOrder
  \/ DropHandler

ExpireSpec == Init /\ [][NextExpire]_vars

\* OrderSpec with runnables that may throw; nothing runs once the process
\* has been terminated.
ProcessRuns == lpc # "terminated"
NextThrow ==
  \/ ProcessRuns /\ OrderTick
  \/ \E d \in 0..MaxOrderTime : ProcessRuns /\ OrderStamp(d)
  \/ ProcessRuns /\ PLock("p1")
  \/ ProcessRuns /\ PBody("p1")
  \/ ProcessRuns /\ PNotify("p1")
  \/ LoopTop
  \/ LoopLock
  \/ LoopNext
  \/ WaitTimeout
  \/ SpuriousWake
  \/ LoopDispatch
  \/ LoopRunEnd
  \/ LoopThrow

ThrowSpec == Init /\ [][NextThrow]_vars

\* A HandlerThread from construction to destruction: its owner may start it
\* and destroys it, one thread posts through its Handler.
NextLife ==
  \/ Tick
  \/ \E d \in 0..MaxTime : LifeStamp(d)
  \/ PLock("p1")
  \/ PBody("p1")
  \/ PNotify("p1")
  \/ Start
  \/ Run
  \/ LoopTop
  \/ LoopLock
  \/ LoopNext
  \/ WaitTimeout
  \/ SpuriousWake
  \/ LoopDispatch
  \/ LoopRunEnd
  \/ DtorBegin
  \/ LooperCheck
  \/ LooperSpurious
  \/ DtorQuit
  \/ QLock
  \/ QBody
  \/ DtorJoin

LifeSpec == InitLife /\ [][NextLife]_vars

\* What fair scheduling gives: a runnable thread runs and a timed wait ends
\* once its time is reached.  Nothing makes a producer post, a caller stop
\* the loop, the clock advance or a wait end spuriously.
LoopFair ==
  /\ WF_vars(LoopTop) /\ WF_vars(LoopLock) /\ WF_vars(LoopNext)
  /\ WF_vars(WaitTimeout) /\ WF_vars(LoopDispatch) /\ WF_vars(LoopRunEnd)
ProducerFair ==
  \A p \in Producers : WF_vars(PLock(p)) /\ WF_vars(PBody(p)) /\ WF_vars(PNotify(p))
StopperFair == WF_vars(QLock) /\ WF_vars(QBody)

OwnerFair ==
  /\ WF_vars(Run) /\ WF_vars(LooperCheck) /\ WF_vars(DtorQuit) /\ WF_vars(DtorJoin)
\* a thread that keeps asking for the queue mutex gets it
LockFair ==
  /\ SF_vars(LoopLock) /\ SF_vars(QLock)
  /\ \A p \in Producers : SF_vars(PLock(p))

\* fair threads, a clock that need not advance
FairLifeSpec ==
  LifeSpec /\ LoopFair /\ ProducerFair /\ StopperFair /\ OwnerFair /\ LockFair
FairSpec == Spec /\ LoopFair /\ ProducerFair /\ StopperFair

\* fair threads and a clock that advances
FairTickSpec == FairSpec /\ WF_vars(Tick)

\* ----------------------------------------------------------------- claims
NoDup(s) == \A i, j \in 1..Len(s) : i # j => s[i] # s[j]
DueHead == queue_ # <<>> /\ Top(queue_).send_time <= now
OnlySafeStops == stopCalls # <<>> /\ \A i \in 1..Len(stopCalls) : stopCalls[i] = "safe"
DueOf(s) == (CHOOSE m \in Range(returned) : m.seq = s).send_time
FirstStopReturned == stopCalls # <<>> /\ (qpc = "idle" \/ Len(stopCalls) > 1)

\* C1: whenever Next() has returned a message to the loop, the clock is at or
\* past that message's send_time (the submission time plus the delay).
C1_NeverEarly ==
  lpc = "dispatch" => (cur # NoMsg /\ cur.send_time <= now)

C1_Witness ==
  lpc = "dispatch" /\ now > 0 /\ cur.send_time = now /\ queue_ # <<>>

\* C2: when every message was inserted before Next() returned the first one,
\* the messages come back in ascending send_time order: of two returned
\* messages with different send_times the earlier-due one is returned first,
\* whatever the insertion order.
C2_AscendingOrder ==
  ~lateEnq =>
    \A i, j \in 1..Len(returned) :
      (i < j /\ returned[i].send_time # returned[j].send_time)
        => returned[i].send_time < returned[j].send_time

C2_Witness ==
  /\ ~lateEnq
  /\ Len(returned) = 3
  /\ returned[1].seq > returned[2].seq /\ returned[2].seq > returned[3].seq
  /\ returned[1].send_time < returned[2].send_time
  /\ returned[2].send_time < returned[3].send_time

\* C3: messages with equal send_time are returned by Next() in the order in
\* which Enqueue inserted them.
C3_FifoTies ==
  \A i, j \in 1..Len(returned) :
    (i < j /\ returned[i].send_time = returned[j].send_time)
      => returned[i].seq < returned[j].seq

\* C4: an Enqueue that finds quit_ set returns false (it leaves its critical
\* section without reaching notify_all) and leaves the queue as it was; one
\* that finds it clear inserts the message and returns true after notify_all.
C4_EnqueueAfterQuit ==
  [][\A p \in Producers :
       /\ (ppc[p] = "locked" /\ ppc'[p] # "locked") =>
            IF quit_
            THEN ppc'[p] = "idle" /\ queue_' = queue_ /\ nseq' = nseq
            ELSE /\ ppc'[p] = "notify" /\ nseq' = nseq + 1
                 /\ Len(queue_') = Len(queue_) + 1
                 /\ Range(queue_') =
                      Range(queue_) \cup {[seq |-> nseq', send_time |-> pmsg[p]]}
       /\ (ppc[p] = "notify" /\ ppc'[p] # "notify")
            => (ppc'[p] = "idle" /\ Rejected' = Rejected)]_vars

C4_Witness ==
  Rejected > 0 /\ quit_ /\ queue_ # <<>>

\* C5: once quit_ is set Next() returns no message: its pass under the lock
\* returns nullptr and pops nothing, also when a due message is queued.
C5_NoReturnAfterQuit ==
  [][quit_ =>
       /\ returned' = returned
       /\ queue_' = queue_
       /\ (lpc = "next_check" /\ lpc' # "next_check")
            => (lpc' = "done" /\ cur' = NoMsg /\ nextNull')]_vars

C5_Witness ==
  nextNull /\ quit_ /\ DueHead

\* C6: no message is run twice, only inserted messages are run, and with fair
\* threads and an advancing clock the loop keeps reaching a state in which
\* every inserted message has been run (so the runs number the accepted
\* submissions), unless a stop is requested.
C6_ExactlyOnce ==
  /\ [](NoDup(executed) /\ Range(executed) \subseteq 1..nseq)
  /\ []<>(looper_quit \/ Range(executed) = 1..nseq)

C6_Witness ==
  /\ ~looper_quit /\ Rejected = 0
  /\ lpc = "running" /\ Len(executed) = MaxMsgs /\ nseq = MaxMsgs
  /\ \E p \in Producers : ppc[p] = "notify"

\* C7: after a graceful stop (QuitSafely only), once Loop has returned every
\* message that was queued and due when the stop set quit_ has been run.
C7_GracefulDrainsDue ==
  (lpc = "done" /\ OnlySafeStops) => dueAtStop \subseteq Range(executed)

\* C8: a message posted with a positive delay and still not due when a
\* graceful stop (QuitSafely only) sets quit_ has been run once Loop has
\* returned.
C8_GracefulRunsPending ==
  (lpc = "done" /\ OnlySafeStops) => pendAtStop \subseteq Range(executed)

\* C9: when Quit finds the loop in a timed wait for a future-dated message,
\* Loop returns without the clock advancing, and no message that was queued
\* and not yet due at the stop is ever run.
C9_HardStopWakesLoop ==
  /\ (wokenByQuit ~> (lpc = "done"))
  /\ [](Range(executed) \cap pendAtStop = {})

C9_Witness ==
  /\ wokenByQuit /\ lpc = "done" /\ stopCalls = <<"hard">>
  /\ queue_ # <<>> /\ Top(queue_).send_time > now
  /\ executed = <<>>

\* C10: with fair threads, whenever a due message is at the front of the
\* queue, Next() eventually returns a message (or a stop is requested); the
\* clock need not advance, so the loop does not sleep on to an older deadline.
C10_NoLostWakeup ==
  DueHead ~> (lpc = "dispatch" \/ looper_quit)

C10_Witness ==
  /\ lpc = "wait" /\ deadline > now /\ DueHead /\ ~looper_quit

\* C11: with producers posting while the loop runs (delays not negative), the
\* messages are run in non-decreasing send_time order: no message is run after
\* one with a strictly later send_time.
C11_NonDecreasingDue ==
  \A i, j \in 1..Len(executed) :
    i < j => DueOf(executed[i]) <= DueOf(executed[j])

\* C12: at most one message is being invoked at any moment: an invocation
\* begins only after the one before it has ended, whatever the producers and
\* the stopping thread do meanwhile.
C12_SerialExecution ==
  /\ Cardinality(invoking) <= 1
  /\ (invoking # {} <=> lpc = "running")

C12_Witness ==
  /\ lpc = "running" /\ invoking = {cur.seq}
  /\ Len(executed) = MaxMsgs /\ looper_quit

\* C13: while a message is being invoked (the loop is in DispatchMessage or
\* the runnable) the loop thread does not hold the queue mutex: it is free or
\* held by a producer or the stopping thread, whose Enqueue or Quit therefore
\* does not wait for the runnable to return.
C13_NoLockAcrossTask ==
  lpc \in {"dispatch", "running"} => mutex_ # "loop"

C13_Witness ==
  lpc = "running" /\ mutex_ = "p1" /\ qpc = "lock"

\* C14: an invocation that throws is contained by the loop: every invocation,
\* however it ends, leaves the loop thread at the top of Loop's while, from
\* where it takes the next message.
C14_ThrowContained ==
  [][lpc = "running" => lpc' \in {"running", "loop_top"}]_vars

\* C15: a PostDelay given a negative delay is rejected: it inserts no message
\* (and so does not reach Enqueue's return true), and none of its messages
\* is run.
C15_NegativeDelayRejected ==
  negSeqs = {}

\* C16: no step clears MessageQueue::quit_ or Looper::quit_ once set, and
\* every step of a stop call made after quit_ is set (a second Quit or
\* QuitSafely) leaves both flags and the queue as they were.
C16_QuitMonotoneIdempotent ==
  [][/\ (quit_ => quit_')
     /\ (looper_quit => looper_quit')
     /\ (quit_ /\ qpc' # qpc)
          => (quit_' /\ looper_quit' /\ queue_' = queue_)]_vars

C16_Witness ==
  /\ Len(stopCalls) = 2 /\ qpc = "idle" /\ quit_ /\ looper_quit
  /\ queue_ # <<>>

\* C17: with fair threads and runnables that return, a HandlerThread's
\* destructor, once begun, ends (Quit() has returned and the thread is
\* joined), also when Start() was never called.
C17_DestructorTerminates ==
  (dpc # "alive") ~> (dpc = "destroyed")

\* C18: once the first Looper::Quit has returned, at most one message has
\* begun to run since quit_ was set, and it is one Next() had returned before
\* that; no message that was in the queue when quit_ was set is ever run.
C18_QuitRacesOneTask ==
  FirstStopReturned =>
    /\ Len(executed) <= execAtStop + 1
    /\ Range(executed) \cap (dueAtStop \cup pendAtStop) = {}
    /\ \A i \in 1..Len(executed) : executed[i] = returned[i].seq

C18_Witness ==
  /\ FirstStopReturned /\ lpc = "done"
  /\ execAtStop = 0 /\ Len(executed) = 1
  /\ queue_ # <<>> /\ Top(queue_).send_time <= now

\* C19: a message Next() returned whose Handler is gone is not run and is no
\* longer in the queue, and Loop goes round for the next message; one whose
\* Handler is alive is run, and no message is run twice.
C19_ExpiredTargetSkipped ==
  /\ [][(lpc = "dispatch" /\ lpc' # "dispatch") =>
         IF handlerAlive
         THEN lpc' = "running" /\ executed' = Append(executed, cur.seq)
         ELSE /\ lpc' = "loop_top" /\ looper_quit' = looper_quit
              /\ executed' = executed
              /\ cur.seq \in 1..nseq
              /\ \A m \in Range(queue_') : m.seq # cur.seq]_vars
  /\ [](NoDup(executed))

C19_Witness ==
  /\ ~handlerAlive /\ lpc = "wait"
  /\ Len(returned) = 3 /\ Len(executed) = 1

\* C20: Next() returns nullptr only with quit_ set, whatever ended its wait,
\* and Loop returns only after Quit or QuitSafely has been called.
C20_NullOnlyOnQuit ==
  /\ [][(lpc = "next_check" /\ lpc' = "done") => quit_]_vars
  /\ [](nextNull => quit_)
  /\ [](lpc = "done" => stopCalls # <<>>)

C20_Witness ==
  /\ nextNull /\ lpc = "done" /\ queue_ = <<>>
  /\ Len(executed) = MaxMsgs

====
